---- MODULE Spec2Model ----
(***************************************************************************)
(* A model of proxypool.ProxyPool (src/proxypool/proxypool.py): the pool   *)
(* of ProxyInst records, its lock, get_proxy, __fetch_proxies, and the     *)
(* retry loop of Decorators.with_proxypool run by concurrent threads.      *)
(*                                                                         *)
(* Times are in milliseconds (the initial latency 1e-3 s is 1).  Rational  *)
(* numbers (failrate, weights, the drawn r) are pairs <<num, den>> with    *)
(* den > 0 and are compared by cross-multiplication; weights are per ms.   *)
(***************************************************************************)
EXTENDS Integers, Sequences, FiniteSets, TLC

\* ---------------------------------------------------------------- bounds
\* Logical requests each thread issues.
MaxRequests == 1
\* sample_counter is a diagnostic counter no code reads; it is kept up to
\* this value and stays there.
MaxSampleCounter == 1
\* The drawn r is one of 0/RDen, 1/RDen, ..., RDen/RDen.
RDen == 2
\* Requests the caller dispatches, one after the other, in the scenario of
\* test_proxy_down (num_calls).
MaxDownRequests == 3

\* ------------------------------------------------------ program constants
\* 1 / 1e-7, the reciprocal of the epsilon in failrate().
EpsInv == 10000000
\* self.t = 1e-3, in milliseconds.
InitialLatency == 1
\* The defaults of ProxyPool.__init__: connection_retries=30 and
\* max_proxy_failrate=0.1.
DefaultConnectionRetries == 30
DefaultMaxProxyFailrate == <<1, 10>>

\* ------------------------------------------------------------ environment
Threads == {"t1", "t2"}
NoThread == "none"
NoRec == 0

\* self.providers, in list order.
Providers == <<"P1", "P2">>
NumProviders == Len(Providers)

\* What a provider's update() may do: return a set of addresses, or raise.
Returned(urls) == [ok |-> TRUE, urls |-> urls]
Raised == [ok |-> FALSE, urls |-> {}]
ProviderOutcomes(i) ==
    IF i = 1 THEN {Returned({}), Returned({"a"}), Raised}
             ELSE {Returned({}), Returned({"a"}), Returned({"b"}), Raised}

\* Configurations of ProxyPool(providers, connection_retries, ..., max_proxy_failrate).
ConnectionRetries == {1}
FailrateThresholds == {<<1, 2>>}

\* Elapsed times a response may report (ms) and the statuses of the branches.
Latencies == {1, 2}
RateLimitStatuses == {429, 503}
OtherStatuses == {200, 404, 500}
NoResp == [status |-> 0, elapsed |-> 0]
\* The value of r while no get_proxy is between its draw and its return.
NoDraw == <<0, 1>>
\* The value of failed_url while p is not the record of a transport failure.
NoUrl == ""
\* The frame of __str__ before the call.
NoSummary == [at |-> "idle", good |-> 0, total |-> 0, updates |-> 0]

VARIABLES
    proxies,            \* self.proxies: the set of record ids in the pool
    recs,               \* the live ProxyInst objects, by id
    provider_updates,   \* self.provider_updates
    lock,               \* self.lock: its holder, or NoThread
    max_proxy_attempts, \* self.max_proxy_attempts
    max_proxy_failrate, \* self.max_proxy_failrate, a rational
    pc,                 \* where each thread is
    failures,           \* proxypool_caller's local failures
    p,                  \* proxypool_caller's local p (a record id)
    resp,               \* proxypool_caller's local r (the response)
    result,             \* how the thread's last dispatch call ended
    nreq,               \* dispatch calls started by the thread
    update_calls,       \* times each provider's update() was called
    rate_limited,       \* whether the current request met a 429/503
    r,                  \* get_proxy's local r, the drawn value
    failed_url,         \* p.url while p is the record of a transport failure
    ended,              \* per live record, the attempts through it that ended
                        \* in the except branch and in the success branch
    summary             \* the frame of a __str__ call: where it is, len(gp),
                        \* and the values read so far for the format

vars == <<proxies, recs, provider_updates, lock, max_proxy_attempts,
          max_proxy_failrate, pc, failures, p, resp, result, nreq,
          update_calls, rate_limited, r, failed_url, ended, summary>>

pool_vars == <<proxies, recs, provider_updates>>
config_vars == <<max_proxy_attempts, max_proxy_failrate>>

\* ------------------------------------------------------------- arithmetic
RECURSIVE Gcd(_, _)
Gcd(a, b) == IF b = 0 THEN a ELSE Gcd(b, a % b)

Frac(n, d) == LET g == Gcd(n, d) IN <<n \div g, d \div g>>
FracLess(x, y) == x[1] * y[2] < y[1] * x[2]
FracAdd(x, y) == Frac(x[1] * y[2] + y[1] * x[2], x[2] * y[2])
FracDiv(x, y) == Frac(x[1] * y[2], x[2] * y[1])

RECURSIVE SeqSum(_)
SeqSum(s) == IF s = <<>> THEN <<0, 1>> ELSE FracAdd(Head(s), SeqSum(Tail(s)))

RECURSIVE SetToSeq(_)
SetToSeq(S) ==
    IF S = {} THEN <<>>
    ELSE LET x == CHOOSE y \in S : \A z \in S : y <= z
         IN <<x>> \o SetToSeq(S \ {x})

RECURSIVE StrSetToSeq(_)
StrSetToSeq(S) ==
    IF S = {} THEN <<>>
    ELSE LET x == CHOOSE y \in S : TRUE IN <<x>> \o StrSetToSeq(S \ {x})

\* The orders in which iterating a set may yield its elements.
Orders(S) ==
    {f \in [1..Cardinality(S) -> S] : \A i, j \in DOMAIN f : f[i] = f[j] => i = j}

\* ------------------------------------------------------------- ProxyInst
ProxyInst(url) ==
    [url |-> url, t |-> InitialLatency, w |-> Frac(1, InitialLatency),
     failures |-> 0, successes |-> 0, down |-> FALSE, sample_counter |-> 0]

failrate(rec) ==
    <<rec.failures * EpsInv, (rec.successes + rec.failures) * EpsInv + 1>>

\* A set_latency that smooths instead of overwriting.
set_latency_Smoothed(rec, t) == [rec EXCEPT !.t = (@ + t) \div 2]
set_latency(rec, t) == [rec EXCEPT !.t = t]
\* An increase_successes that writes back a count read before another
\* thread's update (a read of 0), losing that update.
increase_successes_StaleRead(rec) == [rec EXCEPT !.successes = 0 + 1]
increase_successes(rec) == [rec EXCEPT !.successes = @ + 1]
\* An increase_failures that loses the update.
increase_failures_Dropped(rec) == rec
increase_failures(rec) == [rec EXCEPT !.failures = @ + 1]
\* A set_down that marks the proxy down only while it has no successes.
set_down_UnlessProven(rec) == [rec EXCEPT !.down = (rec.successes = 0)]
set_down(rec) == [rec EXCEPT !.down = TRUE]

\* ------------------------------------------------------------- ProxyPool
\* Filters that forget one of the two conditions of line 200.
IsGood_IgnoresDown(rec, threshold) == FracLess(failrate(rec), threshold)
IsGood_IgnoresFailrate(rec, threshold) == ~rec.down
\* A filter that takes a record for good only once it has had a success.
IsGood_NeedsSuccess(rec, threshold) ==
    FracLess(failrate(rec), threshold) /\ ~rec.down /\ rec.successes > 0
IsGood(rec, threshold) == FracLess(failrate(rec), threshold) /\ ~rec.down

good_proxies == {id \in proxies : IsGood(recs[id], max_proxy_failrate)}

\* Records some thread still refers to.
Held(pp) == {pp[th] : th \in Threads} \ {NoRec}

\* The objects still reachable: those of the pool and those threads refer to.
Live(rs, ps, pp) == [id \in (ps \cup Held(pp)) \cap DOMAIN rs |-> rs[id]]

\* A __set_weights that weighs by the latency instead of its inverse.
set_weights_ByLatency(gp, rs) ==
    LET raw == [i \in 1..Len(gp) |-> Frac(rs[gp[i]].t, 1)]
        s == SeqSum(raw)
    IN [i \in 1..Len(gp) |-> FracDiv(raw[i], s)]

\* __set_weights(gp): the weights it stores in gp[1], gp[2], ..., given the
\* records' latencies.
set_weights(gp, rs) ==
    LET raw == [i \in 1..Len(gp) |-> Frac(1, rs[gp[i]].t)]
        s == SeqSum(raw)
    IN [i \in 1..Len(gp) |-> FracDiv(raw[i], s)]

\* The cumulative walk of get_proxy: from index i with cumulative weight s,
\* the index at which the loop "while s < r" stops (r0 is the drawn r).
RECURSIVE Walk(_, _, _, _)
Walk(ws, i, s, r0) ==
    IF FracLess(s, r0) THEN Walk(ws, i + 1, FracAdd(s, ws[i + 1]), r0) ELSE i

\* One outcome per provider of the list.
FetchOutcomes ==
    {o \in [1..NumProviders -> UNION {ProviderOutcomes(i) : i \in 1..NumProviders}] :
        \A i \in 1..NumProviders : o[i] \in ProviderOutcomes(i)}

\* The first provider whose update() raises, or 0.
FirstRaise(outs) ==
    IF \E i \in 1..NumProviders : ~outs[i].ok
    THEN CHOOSE i \in 1..NumProviders :
            ~outs[i].ok /\ \A j \in 1..(i - 1) : outs[j].ok
    ELSE 0

\* The providers whose update() is called by the loop of __fetch_proxies.
Called(outs) ==
    IF FirstRaise(outs) = 0 THEN 1..NumProviders ELSE 1..FirstRaise(outs)

\* The addresses for which the loop constructs a ProxyInst, in order.
RECURSIVE FetchedUrls(_, _)
FetchedUrls(outs, i) ==
    IF i > NumProviders \/ ~outs[i].ok THEN <<>>
    ELSE StrSetToSeq(outs[i].urls) \o FetchedUrls(outs, i + 1)

\* Ids for n new objects: the n smallest ids no existing object has.
NewIds(n, used) ==
    SubSeq(SetToSeq({k \in 1..(n + Cardinality(used)) : k \notin used}), 1, n)

\* A __fetch_proxies that does not start from an empty set.
fetch_proxies_KeepsOld(outs) ==
    LET urls == FetchedUrls(outs, 1)
        ids == NewIds(Len(urls), DOMAIN recs)
        raised == FirstRaise(outs) # 0
        n == Len(urls)
    IN [proxies |-> proxies \cup {ids[i] : i \in 1..n},
        fresh |-> [id \in {ids[i] : i \in 1..n} |->
                     ProxyInst(urls[CHOOSE i \in 1..n : ids[i] = id])],
        provider_updates |-> IF raised THEN provider_updates
                             ELSE provider_updates + 1,
        error |-> IF raised THEN "ProviderError"
                  ELSE IF n = 0 THEN "NoProxies" ELSE "none"]

\* A __fetch_proxies that keys the records by address and lets a new record
\* inherit the counters, latency and down flag of the old record of the same
\* address.
fetch_proxies_CarriesHistory(outs) ==
    LET urls == FetchedUrls(outs, 1)
        ids == NewIds(Len(urls), DOMAIN recs)
        raised == FirstRaise(outs) # 0
        n == Len(urls)
        Old(url) == {id \in proxies : recs[id].url = url}
        Inherit(url) ==
            IF Old(url) = {} THEN ProxyInst(url)
            ELSE LET o == recs[CHOOSE id \in Old(url) : TRUE]
                 IN [o EXCEPT !.sample_counter = 0]
    IN [proxies |-> {ids[i] : i \in 1..n},
        fresh |-> [id \in {ids[i] : i \in 1..n} |->
                     Inherit(urls[CHOOSE i \in 1..n : ids[i] = id])],
        provider_updates |-> IF raised THEN provider_updates
                             ELSE provider_updates + 1,
        error |-> IF raised THEN "ProviderError"
                  ELSE IF n = 0 THEN "NoProxies" ELSE "none"]

\* __fetch_proxies: the new record set, the new objects, the counter and
\* whether it raised.
fetch_proxies(outs) ==
    LET urls == FetchedUrls(outs, 1)
        ids == NewIds(Len(urls), DOMAIN recs)
        raised == FirstRaise(outs) # 0
        n == Len(urls)
    IN [proxies |-> {ids[i] : i \in 1..n},
        fresh |-> [id \in {ids[i] : i \in 1..n} |->
                     ProxyInst(urls[CHOOSE i \in 1..n : ids[i] = id])],
        provider_updates |-> IF raised THEN provider_updates
                             ELSE provider_updates + 1,
        error |-> IF raised THEN "ProviderError"
                  ELSE IF n = 0 THEN "NoProxies" ELSE "none"]

\* Mutators and get_proxy that do not take the lock.
LockFree_NotTaken == TRUE
\* with self.lock: entered only when no thread holds the lock.
LockFree == lock = NoThread

\* p.sample_counter += 1
Sampled(rec) ==
    [rec EXCEPT !.sample_counter =
        IF @ < MaxSampleCounter THEN @ + 1 ELSE @]

\* A check that raises one failure earlier.
TooManyFailures_AtLeast(f) == f >= max_proxy_attempts
\* The condition of line 137 that ends the loop with the exception.
TooManyFailures(f) == f > max_proxy_attempts

\* The attempts through a record that have ended in each branch: none for a
\* record just constructed.
NoneEnded == [transport_failure |-> 0, success |-> 0]
Ended(id) == IF id \in DOMAIN ended THEN ended[id] ELSE NoneEnded

\* The step of th ends its attempt through p in the branch how ("none": no
\* attempt ends in one of the two branches in this step).
Count(th, how) ==
    ended' = [id \in DOMAIN recs' |->
                IF id = p[th] /\ how # "none"
                THEN [Ended(id) EXCEPT ![how] = @ + 1]
                ELSE Ended(id)]

\* ------------------------------------------------------------------ Init
Init ==
    /\ proxies = {}
    /\ recs = <<>>
    /\ provider_updates = 0
    /\ lock = NoThread
    /\ max_proxy_attempts \in ConnectionRetries
    /\ max_proxy_failrate \in FailrateThresholds
    /\ pc = [th \in Threads |-> "idle"]
    /\ failures = [th \in Threads |-> 0]
    /\ p = [th \in Threads |-> NoRec]
    /\ resp = [th \in Threads |-> NoResp]
    /\ result = [th \in Threads |-> "none"]
    /\ nreq = [th \in Threads |-> 0]
    /\ update_calls = [i \in 1..NumProviders |-> 0]
    /\ rate_limited = [th \in Threads |-> FALSE]
    /\ r = NoDraw
    /\ failed_url = [th \in Threads |-> NoUrl]
    /\ ended = <<>>
    /\ summary = NoSummary

\* --------------------------------------------------------------- get_proxy
\* The end of a dispatch call: the exception (or the response) reaches the
\* caller and the locals of proxypool_caller are gone.
Finish(th, how, rs, ps) ==
    /\ pc' = [pc EXCEPT ![th] = "idle"]
    /\ result' = [result EXCEPT ![th] = how]
    /\ p' = [p EXCEPT ![th] = NoRec]
    /\ resp' = [resp EXCEPT ![th] = NoResp]
    /\ recs' = Live(rs, ps, p')
    /\ proxies' = ps

\* A loop that catches the exception of get_proxy, counts it and retries.
Propagate_CountedAndRetried(th, error, rs, ps) ==
    /\ failures' = [failures EXCEPT ![th] = @ + 1]
    /\ pc' = [pc EXCEPT ![th] = "get_proxy"]
    /\ p' = [p EXCEPT ![th] = NoRec]
    /\ recs' = Live(rs, ps, p')
    /\ proxies' = ps
    /\ lock' = NoThread
    /\ UNCHANGED <<result, resp>>

\* An exception that leaves get_proxy without releasing the lock (an
\* acquire and a release in place of the with statement).
Propagate_KeepsLock(th, error, rs, ps) ==
    /\ Finish(th, error, rs, ps)
    /\ UNCHANGED <<failures, lock>>

\* The exception leaves the with block of get_proxy, which releases the
\* lock; line 99 is outside the try of lines 103-107: it leaves
\* proxypool_caller as well.
Propagate(th, error, rs, ps) ==
    /\ Finish(th, error, rs, ps)
    /\ lock' = NoThread
    /\ UNCHANGED failures

\* Lines 210-220: weights (ws), the walk (to index i), the sample counter,
\* the return (which releases the lock).
Sample(th, gp, r0, rs, ps) ==
    \E ws \in {set_weights(gp, rs)} :
    \E i \in {Walk(ws, 1, ws[1], r0)} :
       LET weighted == [id \in DOMAIN rs |->
                          IF \E j \in 1..Len(gp) : gp[j] = id
                          THEN [rs[id] EXCEPT
                                  !.w = ws[CHOOSE j \in 1..Len(gp) : gp[j] = id]]
                          ELSE rs[id]]
           rs2 == [weighted EXCEPT ![gp[i]] = Sampled(@)]
       IN /\ p' = [p EXCEPT ![th] = gp[i]]
          /\ recs' = Live(rs2, ps, p')
          /\ proxies' = ps
          /\ pc' = [pc EXCEPT ![th] = "apifunc"]
          /\ lock' = NoThread
          /\ UNCHANGED <<result, resp, failures>>

\* Lines 204-205: with self.lock, and the draw of r.
AcquireLock(th) ==
    /\ pc[th] = "get_proxy"
    /\ LockFree
    /\ lock' = th
    /\ \E k \in 0..RDen : r' = Frac(k, RDen)
    /\ pc' = [pc EXCEPT ![th] = "locked"]
    /\ UNCHANGED <<pool_vars, config_vars, summary, failures, p, resp, result, nreq,
                   update_calls, rate_limited, failed_url, ended>>

\* Lines 206-220, the body of get_proxy under the lock, with the refresh of
\* lines 207-209 when no record is good; its locals end with the call.
get_proxy(th) ==
    /\ pc[th] = "locked"
    /\ r' = NoDraw
    /\ failed_url' = [failed_url EXCEPT ![th] = NoUrl]
    /\ IF good_proxies # {}
       THEN /\ \E gp \in Orders(good_proxies) :
                   Sample(th, gp, r, recs, proxies)
            /\ UNCHANGED <<provider_updates, update_calls>>
       ELSE \E outs \in FetchOutcomes :
               LET f == fetch_proxies(outs)
                   rs == [id \in DOMAIN recs \cup DOMAIN f.fresh |->
                            IF id \in DOMAIN f.fresh THEN f.fresh[id]
                            ELSE recs[id]]
               IN /\ provider_updates' = f.provider_updates
                  /\ update_calls' =
                        [i \in 1..NumProviders |->
                           IF i \in Called(outs) THEN update_calls[i] + 1
                           ELSE update_calls[i]]
                  /\ IF f.error # "none"
                     THEN Propagate(th, f.error, rs, f.proxies)
                     ELSE \E gp \in Orders(f.proxies) :
                             Sample(th, gp, r, rs, f.proxies)
    /\ UNCHANGED <<config_vars, summary, nreq, rate_limited>>
    /\ Count(th, "none")

\* ---------------------------------------------------------- with_proxypool
\* Lines 94-96: a dispatch call (get, post, ...) begins; the caller issues
\* at most limit of them.
StartRequestWithin(th, limit) ==
    /\ pc[th] = "idle"
    /\ nreq[th] < limit
    /\ nreq' = [nreq EXCEPT ![th] = @ + 1]
    /\ failures' = [failures EXCEPT ![th] = 0]
    /\ resp' = [resp EXCEPT ![th] = NoResp]
    /\ result' = [result EXCEPT ![th] = "none"]
    /\ rate_limited' = [rate_limited EXCEPT ![th] = FALSE]
    /\ pc' = [pc EXCEPT ![th] = "get_proxy"]
    /\ UNCHANGED <<pool_vars, lock, config_vars, summary, p, update_calls>>
    /\ UNCHANGED <<r, failed_url, ended>>

StartRequest(th) == StartRequestWithin(th, MaxRequests)

\* Lines 137-140 after an attempt that left the local counter at f: raise,
\* or go round the loop.
EndOfIteration(th, f, rs) ==
    IF TooManyFailures(f)
    THEN Finish(th, "TooManyFailures", rs, proxies)
    ELSE /\ pc' = [pc EXCEPT ![th] = "get_proxy"]
         /\ resp' = [resp EXCEPT ![th] = NoResp]
         /\ p' = [p EXCEPT ![th] = NoRec]
         /\ recs' = Live(rs, proxies, p')
         /\ UNCHANGED <<proxies, result>>

\* Lines 105-110: apifunc raised a transport exception.
TransportFailure(th) ==
    /\ pc[th] = "apifunc"
    /\ LockFree
    /\ failures' = [failures EXCEPT ![th] = @ + 1]
    /\ EndOfIteration(th, failures'[th],
                      [recs EXCEPT ![p[th]] = increase_failures(@)])
    /\ failed_url' = [failed_url EXCEPT ![th] =
                         IF pc'[th] = "idle" THEN NoUrl ELSE recs[p[th]].url]
    /\ UNCHANGED <<provider_updates, lock, config_vars, summary, nreq,
                   update_calls, rate_limited>>
    /\ UNCHANGED r
    /\ Count(th, "transport_failure")

\* Lines 112-119: status 403.
Status403(th) ==
    /\ pc[th] = "apifunc"
    /\ LockFree
    /\ failures' = [failures EXCEPT ![th] = @ + 1]
    /\ EndOfIteration(th, failures'[th], [recs EXCEPT ![p[th]] = set_down(@)])
    /\ UNCHANGED <<provider_updates, lock, config_vars, summary, nreq,
                   update_calls, rate_limited>>
    /\ UNCHANGED <<r, failed_url>>
    /\ Count(th, "none")

\* A rate-limit branch that counts the attempt as a failure.
RateLimited_Counted(th) ==
    /\ pc[th] = "apifunc"
    /\ \E status \in RateLimitStatuses :
          resp' = [resp EXCEPT ![th] = [status |-> status, elapsed |-> 0]]
    /\ rate_limited' = [rate_limited EXCEPT ![th] = TRUE]
    /\ failures' = [failures EXCEPT ![th] = @ + 1]
    /\ pc' = [pc EXCEPT ![th] = "sleep"]
    /\ UNCHANGED <<pool_vars, lock, config_vars, summary, p, result, nreq,
                   update_calls>>
    /\ UNCHANGED <<r, failed_url, ended>>

\* A rate-limit branch that sleeps inside the pool's lock.
RateLimited_SleepsUnderLock(th) ==
    /\ pc[th] = "apifunc"
    /\ LockFree
    /\ lock' = th
    /\ \E status \in RateLimitStatuses :
          resp' = [resp EXCEPT ![th] = [status |-> status, elapsed |-> 0]]
    /\ rate_limited' = [rate_limited EXCEPT ![th] = TRUE]
    /\ pc' = [pc EXCEPT ![th] = "sleep"]
    /\ UNCHANGED <<pool_vars, config_vars, summary, failures, p, result, nreq,
                   update_calls>>
    /\ UNCHANGED <<r, failed_url, ended>>

\* Lines 120-125: status 429 or 503; the thread goes to sleep.
RateLimited(th) ==
    /\ pc[th] = "apifunc"
    /\ \E status \in RateLimitStatuses :
          resp' = [resp EXCEPT ![th] = [status |-> status, elapsed |-> 0]]
    /\ rate_limited' = [rate_limited EXCEPT ![th] = TRUE]
    /\ pc' = [pc EXCEPT ![th] = "sleep"]
    /\ UNCHANGED <<pool_vars, lock, config_vars, summary, failures, p, result, nreq,
                   update_calls>>
    /\ UNCHANGED <<r, failed_url, ended>>

\* The sleep of line 125 ends; lines 137-140.
Wake(th) ==
    /\ pc[th] = "sleep"
    /\ EndOfIteration(th, failures[th], recs)
    /\ UNCHANGED <<provider_updates, lock, config_vars, summary, failures, nreq,
                   update_calls, rate_limited>>
    /\ UNCHANGED <<r, failed_url>>
    /\ Count(th, "none")

\* Lines 129-133: any other status; p.set_latency(r.elapsed.total_seconds()).
Success(th) ==
    /\ pc[th] = "apifunc"
    /\ LockFree
    /\ \E status \in OtherStatuses, elapsed \in Latencies :
          /\ resp' = [resp EXCEPT ![th] = [status |-> status, elapsed |-> elapsed]]
          /\ recs' = [recs EXCEPT ![p[th]] = set_latency(@, resp'[th].elapsed)]
    /\ pc' = [pc EXCEPT ![th] = "increase_successes"]
    /\ UNCHANGED <<proxies, provider_updates, lock, config_vars, summary, failures, p,
                   result, nreq, update_calls, rate_limited>>
    /\ UNCHANGED <<r, failed_url>>
    /\ Count(th, "success")

\* Lines 134-135: p.increase_successes(); return r.
IncreaseSuccesses(th) ==
    /\ pc[th] = "increase_successes"
    /\ LockFree
    /\ Finish(th, "response",
              [recs EXCEPT ![p[th]] = increase_successes(@)], proxies)
    /\ UNCHANGED <<provider_updates, lock, config_vars, summary, failures, nreq,
                   update_calls, rate_limited>>
    /\ UNCHANGED <<r, failed_url>>
    /\ Count(th, "none")

ThreadStep(th) ==
        \/ StartRequest(th)
        \/ AcquireLock(th)
        \/ get_proxy(th)
        \/ TransportFailure(th)
        \/ Status403(th)
        \/ RateLimited(th)
        \/ Wake(th)
        \/ Success(th)
        \/ IncreaseSuccesses(th)

Next == \E th \in Threads : ThreadStep(th)

Spec == Init /\ [][Next]_vars

\* One caller dispatching its requests one after the other; a thread that
\* can take a step is eventually scheduled.
Caller == "t1"
SeqNext == ThreadStep(Caller)
SeqFairSpec == Init /\ [][SeqNext]_vars /\ WF_vars(SeqNext)

\* The scenario of test_proxy_down: a pool built with the defaults, whose
\* providers return a working and a broken address; every attempt through
\* the broken one raises a transport exception, every attempt through the
\* working one is answered; one caller, one request after the other.
Working == "a"
Broken == "b"
DownInit ==
    /\ proxies = {}
    /\ recs = <<>>
    /\ provider_updates = 0
    /\ lock = NoThread
    /\ max_proxy_attempts \in ConnectionRetries \cup {DefaultConnectionRetries}
    /\ max_proxy_failrate = DefaultMaxProxyFailrate
    /\ pc = [th \in Threads |-> "idle"]
    /\ failures = [th \in Threads |-> 0]
    /\ p = [th \in Threads |-> NoRec]
    /\ resp = [th \in Threads |-> NoResp]
    /\ result = [th \in Threads |-> "none"]
    /\ nreq = [th \in Threads |-> 0]
    /\ update_calls = [i \in 1..NumProviders |-> 0]
    /\ rate_limited = [th \in Threads |-> FALSE]
    /\ r = NoDraw
    /\ failed_url = [th \in Threads |-> NoUrl]
    /\ ended = <<>>
    /\ summary = NoSummary

DownNext ==
    \/ StartRequestWithin(Caller, MaxDownRequests)
    \/ AcquireLock(Caller)
    \/ /\ get_proxy(Caller)
       /\ Cardinality(proxies') = 2
       /\ {recs'[id].url : id \in proxies'} = {Working, Broken}
    \/ /\ TransportFailure(Caller)
       /\ recs[p[Caller]].url = Broken
    \/ /\ Success(Caller)
       /\ recs[p[Caller]].url = Working
    \/ IncreaseSuccesses(Caller)

DownSpec == DownInit /\ [][DownNext]_vars

\* str(pool) called by a thread of its own while a caller dispatches.
\* Lines 160-161: the good list is computed inside the with block, which
\* takes the lock and releases it.
StrGoodProxies ==
    /\ summary.at = "idle"
    /\ LockFree
    /\ summary' = [summary EXCEPT !.at = "gp",
                                  !.good = Cardinality(good_proxies)]
    /\ UNCHANGED <<pool_vars, lock, config_vars, pc, failures, p, resp,
                   result, nreq, update_calls, rate_limited, r, failed_url,
                   ended>>

\* Line 163, first argument of the format: len(self.proxies), read after
\* the with block was left.
StrLenProxies ==
    /\ summary.at = "gp"
    /\ summary' = [summary EXCEPT !.at = "total",
                                  !.total = Cardinality(proxies)]
    /\ UNCHANGED <<pool_vars, lock, config_vars, pc, failures, p, resp,
                   result, nreq, update_calls, rate_limited, r, failed_url,
                   ended>>

\* Line 163, last argument of the format: self.provider_updates; the
\* string is returned.
StrReturn ==
    /\ summary.at = "total"
    /\ summary' = [summary EXCEPT !.at = "returned",
                                  !.updates = provider_updates]
    /\ UNCHANGED <<pool_vars, lock, config_vars, pc, failures, p, resp,
                   result, nreq, update_calls, rate_limited, r, failed_url,
                   ended>>

StrNext ==
    \/ ThreadStep(Caller)
    \/ StrGoodProxies
    \/ StrLenProxies
    \/ StrReturn

StrSpec == Init /\ [][StrNext]_vars

\* ------------------------------------------------------------ properties
\* The claims' own words for a record's state.
Down(rec) == rec.down
OverThreshold(rec) == ~FracLess(failrate(rec), max_proxy_failrate)
Usable(rec) == ~Down(rec) /\ ~OverThreshold(rec)
Fresh(rec) ==
    /\ rec.t = InitialLatency
    /\ rec.failures = 0
    /\ rec.successes = 0
    /\ ~rec.down

\* What get_proxy returns to th in a step that ends the call normally.
Returns(th) == pc[th] = "locked" /\ pc'[th] = "apifunc"
InLoop(th) == pc[th] # "idle"
Other(th) == CHOOSE o \in Threads : o # th

C2_NeverGoodAgain ==
    [][\A id \in proxies \cap proxies' :
          OverThreshold(recs[id]) => id \notin good_proxies']_vars

\* C2 amended: a record of the pool whose failrate is at or over the
\* threshold while no attempt through it is in flight stays so for the rest
\* of its life in the pool: its failrate stays at or over the threshold and
\* no get_proxy returns it.
C2_StaysOutOnceIdle ==
    [][\A id \in proxies \cap proxies' :
          (OverThreshold(recs[id]) /\ id \notin Held(p)) =>
             /\ OverThreshold(recs'[id])
             /\ id \notin Held(p')
             /\ id \notin good_proxies']_vars

\* C2 witness: a record is over the threshold with no attempt in flight and
\* a thread that failed on it has since sampled another record.
C2_Witness ==
    \E th \in Threads :
        /\ nreq[Other(th)] = 0
        /\ pc[th] = "apifunc"
        /\ failures[th] = 1
        /\ \E id \in proxies \ {p[th]} :
              /\ OverThreshold(recs[id])
              /\ ~Down(recs[id])
              /\ id \notin Held(p)

\* C3: an attempt answered 403 leaves its record down, a down record stays
\* down for as long as it exists, and no get_proxy returns a down record,
\* whatever its counters.
C3_DownIsPermanent ==
    [][/\ \A th \in Threads :
             (Status403(th) /\ p[th] \in DOMAIN recs') => Down(recs'[p[th]])
       /\ \A id \in DOMAIN recs \cap DOMAIN recs' :
             Down(recs[id]) => Down(recs'[id])
       /\ \A th \in Threads : Returns(th) => ~Down(recs'[p'[th]])]_vars

\* C3 witness: a record of the pool with a success and no failure is down,
\* and a get_proxy made after that returned another record.
C3_Witness ==
    \E th \in Threads :
        /\ pc[th] = "apifunc"
        /\ failures[th] = 1
        /\ result[Other(th)] = "response"
        /\ \E id \in proxies \ {p[th]} :
              /\ Down(recs[id])
              /\ recs[id].successes = 1
              /\ recs[id].failures = 0

\* C4: a get_proxy that finds no good record (or an empty pool) and whose
\* providers return at least one address performs one refresh: every
\* provider's update is called once, the refresh counter grows by one, and
\* the record returned is one of the new set.
C4_OneRefreshWhenExhausted ==
    [][\A th \in Threads :
          (get_proxy(th) /\ good_proxies = {} /\ pc'[th] = "apifunc") =>
             /\ provider_updates' = provider_updates + 1
             /\ \A i \in 1..NumProviders : update_calls'[i] = update_calls[i] + 1
             /\ proxies' # {}
             /\ proxies' \cap DOMAIN recs = {}
             /\ \A id \in proxies' \ {p'[th]} :
                   Fresh(recs'[id]) /\ recs'[id].sample_counter = 0
             /\ p'[th] \in proxies'
             /\ Fresh(recs'[p'[th]])]_vars

\* C4 witness: a thread running alone exhausted the first set (its one
\* failure), and its next get_proxy refreshed and returned a new record.
C4_Witness ==
    \E th \in Threads :
        /\ nreq[Other(th)] = 0
        /\ pc[th] = "apifunc"
        /\ failures[th] = 1
        /\ provider_updates = 2
        /\ \A i \in 1..NumProviders : update_calls[i] = 2
        /\ p[th] \in proxies

\* C5: a refresh in which every provider returns the empty set ends the
\* dispatch call with the no-proxies error: no retry, and the local failure
\* counter is not touched.
C5_NoProxiesIsFatal ==
    [][\A th \in Threads :
          (get_proxy(th) /\ provider_updates' = provider_updates + 1
                         /\ proxies' = {}) =>
             /\ pc'[th] = "idle"
             /\ result'[th] = "NoProxies"
             /\ failures'[th] = failures[th]
             /\ lock' = NoThread]_vars

\* C5 witness: a request that had one counted failure ended with the
\* no-proxies error.
C5_Witness ==
    \E th \in Threads :
        /\ pc[th] = "idle"
        /\ result[th] = "NoProxies"
        /\ failures[th] = 1
        /\ proxies = {}

\* C6: a request's failure counter changes only by that request's own
\* transport failures and 403 responses, one at a time, and the request
\* raises the too-many-failures error exactly when this counter exceeds
\* max_proxy_attempts.
C6_LocalCounterDecidesRaise ==
    [][\A th \in Threads :
          /\ failures'[th] # failures[th] =>
                \/ StartRequest(th)
                \/ /\ TransportFailure(th) \/ Status403(th)
                   /\ failures'[th] = failures[th] + 1
          /\ (TransportFailure(th) \/ Status403(th)) =>
                failures'[th] = failures[th] + 1
          /\ (result'[th] = "TooManyFailures" /\ result[th] # "TooManyFailures") =>
                /\ TransportFailure(th) \/ Status403(th)
                /\ failures'[th] > max_proxy_attempts
          /\ (InLoop(th) /\ pc'[th] # "idle") =>
                failures'[th] <= max_proxy_attempts
          /\ (InLoop(th) /\ failures'[th] > max_proxy_attempts) =>
                result'[th] = "TooManyFailures"]_vars

\* C6 witness: one request has raised with its counter over the limit while
\* the other, with one failure of its own, goes on.
C6_Witness ==
    \E th \in Threads :
        /\ result[th] = "TooManyFailures"
        /\ failures[th] = max_proxy_attempts + 1
        /\ pc[Other(th)] = "apifunc"
        /\ failures[Other(th)] = 1

\* C7 as stated: a request all of whose attempts were counted failures has
\* made connection_retries attempts when it raises.
C7_RaisesAfterConnectionRetriesAttempts ==
    \A th \in Threads :
        (result[th] = "TooManyFailures" /\ ~rate_limited[th]) =>
            failures[th] = max_proxy_attempts

\* C8: an attempt answered 429 or 503 leaves the local failure counter and
\* every record as they are, and the end of the sleep neither counts nor
\* raises.
C8_RateLimitNotCounted ==
    [][\A th \in Threads :
          /\ (pc[th] = "apifunc" /\ pc'[th] = "sleep") =>
                /\ failures' = failures
                /\ recs' = recs
                /\ proxies' = proxies
                /\ p' = p
          /\ (pc[th] = "sleep" /\ pc'[th] # "sleep") =>
                /\ failures'[th] = failures[th]
                /\ result'[th] # "TooManyFailures"
                /\ \A id \in DOMAIN recs' : recs'[id] = recs[id]]_vars

\* C8 witness: a request is in an attempt again after a rate-limit
\* response, with no counted failure.
C8_Witness ==
    \E th \in Threads :
        /\ pc[th] = "apifunc"
        /\ rate_limited[th]
        /\ failures[th] = 0

\* C9 as stated: every request that has begun ends, with a response or an
\* error.
C9_EveryRequestTerminates ==
    \A th \in Threads : InLoop(th) ~> (pc[th] = "idle")

\* C10: a response of any other status (200, 404, 500) overwrites the
\* record's latency with the elapsed time and changes nothing else of it;
\* then the success count grows by one, failures and down are unchanged,
\* and the call returns the response.
C10_OtherStatusIsSuccess ==
    [][\A th \in Threads :
          /\ (pc[th] = "apifunc" /\ pc'[th] = "increase_successes") =>
                /\ resp'[th].status \in OtherStatuses
                /\ recs'[p[th]] = [recs[p[th]] EXCEPT !.t = resp'[th].elapsed]
                /\ failures'[th] = failures[th]
          /\ (pc[th] = "increase_successes" /\ pc'[th] # "increase_successes") =>
                /\ pc'[th] = "idle"
                /\ result'[th] = "response"
                /\ failures'[th] = failures[th]
                /\ p[th] \in DOMAIN recs' =>
                      recs'[p[th]] =
                         [recs[p[th]] EXCEPT !.successes = @ + 1]]_vars

\* C10 witness: a 500 response with elapsed time 2 has overwritten the
\* initial latency of its record, and the other thread's request has
\* returned a response through a record of the pool.
C10_Witness ==
    \E th \in Threads :
        /\ pc[th] = "increase_successes"
        /\ resp[th] = [status |-> 500, elapsed |-> 2]
        /\ recs[p[th]].t = 2
        /\ recs[p[th]].successes = 1
        /\ result[Other(th)] = "response"

\* C11 as stated: every dispatch call that has ended ended with a response,
\* with the no-proxies error or with the too-many-failures error; no other
\* error reaches the caller.
C11_OnlyThreeOutcomes ==
    \A th \in Threads :
        (pc[th] = "idle" /\ nreq[th] > 0) =>
            result[th] \in {"response", "NoProxies", "TooManyFailures"}

\* C12 as stated: a refresh in which a provider's update raises still
\* completes: every provider is called, the refresh counter grows by one,
\* and the dispatch call does not end with the provider's exception.
C12_ProviderExceptionIsolated ==
    [][\A th \in Threads :
          (get_proxy(th) /\ good_proxies = {}) =>
             /\ provider_updates' = provider_updates + 1
             /\ \A i \in 1..NumProviders : update_calls'[i] = update_calls[i] + 1
             /\ result'[th] # "ProviderError"]_vars

\* C13 as stated: no two records of the pool have the same address.
C13_AddressesUnique ==
    \A i, j \in proxies : recs[i].url = recs[j].url => i = j

\* C14: a get_proxy that refreshes leaves in the pool only records created
\* by this refresh, each with the initial latency, no success, no failure,
\* not down and never sampled (but for the one this get_proxy then samples,
\* once), whatever the previous generation was; every refresh does so, so a
\* second one gives the record state of the first.  A refresh that runs to
\* its end adds one to the refresh counter.
C14_RefreshDiscardsHistory ==
    [][\A th \in Threads :
          (get_proxy(th) /\ good_proxies = {}) =>
             /\ proxies' \cap DOMAIN recs = {}
             /\ \A id \in proxies' :
                   /\ recs'[id].t = ProxyInst(recs'[id].url).t
                   /\ recs'[id].failures = 0
                   /\ recs'[id].successes = 0
                   /\ recs'[id].down = FALSE
                   /\ recs'[id].sample_counter = IF id = p'[th] THEN 1 ELSE 0
             /\ result'[th] # "ProviderError" =>
                   provider_updates' = provider_updates + 1]_vars

\* C14 witness: after a second refresh the pool holds a fresh record of the
\* address of a record of the previous generation that has a failure or is
\* down (a thread still refers to it).
C14_Witness ==
    /\ provider_updates = 2
    /\ \E old \in DOMAIN recs \ proxies, new \in proxies :
          /\ recs[old].url = recs[new].url
          /\ recs[old].failures > 0 \/ recs[old].down
          /\ Fresh(recs[new])

\* C15: when get_proxy returns, every candidate (the good records, or the
\* new set after a refresh) has a positive weight, the weights sum to 1 and
\* are proportional to 1/latency, a strictly lower latency has a strictly
\* higher weight, and for some order of the candidate list the returned
\* record is the first whose cumulative weight is at least the drawn r.
C15_WeightsAndWalk ==
    [][\A th \in Threads :
          Returns(th) =>
             LET G == IF good_proxies # {} THEN good_proxies ELSE proxies'
                 W(id) == recs'[id].w
                 T(id) == recs'[id].t
                 Cum(gp, n) == SeqSum([i \in 1..n |-> W(gp[i])])
             IN /\ \A id \in G : W(id)[1] > 0 /\ W(id)[2] > 0
                /\ \E gp \in Orders(G) : Cum(gp, Len(gp)) = <<1, 1>>
                /\ \A i, j \in G :
                      W(i)[1] * T(i) * W(j)[2] = W(j)[1] * T(j) * W(i)[2]
                /\ \A i, j \in G : T(i) < T(j) => FracLess(W(j), W(i))
                /\ \E gp \in Orders(G) :
                      \E n \in 1..Len(gp) :
                         /\ p'[th] = gp[n]
                         /\ ~FracLess(Cum(gp, n), r)
                         /\ \A m \in 1..(n - 1) : FracLess(Cum(gp, m), r)]_vars

\* C15 witness: get_proxy has returned a record of weight 2/3 (latency 1)
\* from a list whose other candidate has weight 1/3 (latency 2).
C15_Witness ==
    \E th \in Threads :
        /\ pc[th] = "apifunc"
        /\ p[th] \in proxies
        /\ recs[p[th]].w = <<2, 3>>
        /\ recs[p[th]].t = 1
        /\ \E id \in proxies \ {p[th]} :
              recs[id].w = <<1, 3>> /\ recs[id].t = 2

C17_RetryUsesAnotherAddress ==
    [][\A th \in Threads :
          (Returns(th) /\ failed_url[th] # NoUrl) =>
             recs'[p'[th]].url # failed_url[th]]_vars

C20_GetProxyIsOneCriticalSection ==
    [][\A th \in Threads :
          /\ pc[th] = "locked" => lock = th
          /\ (pc[th] = "locked" /\ pc'[th] = "locked") =>
                /\ lock' = th
                /\ proxies' = proxies
                /\ provider_updates' = provider_updates
                /\ update_calls' = update_calls
                /\ r' = r
                /\ DOMAIN recs' \subseteq DOMAIN recs
                /\ \A id \in DOMAIN recs' : recs'[id] = recs[id]
          /\ Returns(th) =>
                /\ lock' = NoThread
                /\ p'[th] \in proxies'
                /\ recs'[p'[th]].sample_counter >= 1
                /\ provider_updates' # provider_updates =>
                      \A i \in 1..NumProviders :
                         update_calls'[i] = update_calls[i] + 1]_vars

\* C20 witness: a thread is inside get_proxy while the other has a response
\* to record on a record of the good set.
C20_Witness ==
    \E th \in Threads :
        /\ pc[th] = "locked"
        /\ lock = th
        /\ pc[Other(th)] = "increase_successes"
        /\ p[Other(th)] \in good_proxies

\* C21: the record set, the refresh counter and the providers' call counts
\* change only in a get_proxy step that starts with no good record; a
\* refresh that returns leaves a good record in the pool; and when the
\* threads' first get_proxy calls on the empty pool have all returned, with
\* no outcome recorded yet, there was one refresh in total.
C21_RefreshOnlyWhenNoGoodRecord ==
    [][/\ (\/ proxies' # proxies
           \/ provider_updates' # provider_updates
           \/ update_calls' # update_calls) =>
             \E th \in Threads : get_proxy(th) /\ good_proxies = {}
       /\ \A th \in Threads :
             (get_proxy(th) /\ good_proxies = {} /\ pc'[th] = "apifunc") =>
                /\ good_proxies' # {}
                /\ provider_updates' = provider_updates + 1
       /\ (\A th \in Threads :
              /\ pc'[th] = "apifunc"
              /\ nreq'[th] = 1
              /\ failures'[th] = 0
              /\ ~rate_limited'[th]) =>
             /\ provider_updates' = 1
             /\ \A i \in 1..NumProviders : update_calls'[i] = 1]_vars

\* C21 witness: both threads called get_proxy on the empty pool, both have
\* their first record, from the same set, and the pool was refreshed once.
C21_Witness ==
    /\ \A th \in Threads :
          /\ pc[th] = "apifunc"
          /\ nreq[th] = 1
          /\ failures[th] = 0
          /\ ~rate_limited[th]
          /\ p[th] \in proxies
    /\ provider_updates = 1

\* C22: every get_proxy step, whether it returns a record or ends with the
\* no-proxies error or a provider's exception, leaves the lock free; the
\* lock is taken only when free, and its holder is inside get_proxy, so no
\* thread waits for a lock it holds itself or that a finished call left
\* held; after a failed get_proxy the other thread, if it waits for the
\* lock, can take it.
C22_LockAlwaysReleased ==
    [][\A th \in Threads :
          /\ get_proxy(th) => lock' = NoThread
          /\ (lock' = th /\ lock # th) => (lock = NoThread /\ AcquireLock(th))
          /\ lock' = th => pc'[th] = "locked"
          /\ (get_proxy(th) /\ result'[th] \in {"NoProxies", "ProviderError"}) =>
                /\ pc'[th] = "idle"
                /\ \A o \in Threads \ {th} :
                      pc'[o] \in {"get_proxy", "apifunc", "increase_successes"} =>
                         lock' # o /\ lock' = NoThread]_vars

\* C22 witness: after a thread's get_proxy ended with the no-proxies error,
\* the other thread's get_proxy took the lock, refreshed the pool again and
\* returned a record.
C22_Witness ==
    \E th \in Threads :
        /\ pc[th] = "idle"
        /\ result[th] = "NoProxies"
        /\ failures[th] = 0
        /\ pc[Other(th)] = "apifunc"
        /\ failures[Other(th)] = 0
        /\ p[Other(th)] \in proxies
        /\ provider_updates = 2
        /\ lock = NoThread

\* C23: the summary __str__ returns reports a good count that does not
\* exceed the total it reports, whatever the other thread did to the pool
\* while the summary was being produced.
C23_SummaryIsASnapshot ==
    summary.at = "returned" => summary.good <= summary.total

====
